---- MODULE Spec2Model ----
(***************************************************************************)
(* google-music-duplicates: the similarity scorer (groups.py SongPair),   *)
(* the greedy clustering loop with its 'partial_groups' checkpoint         *)
(* (groups.py build_groups) and the disk cache it rests on (cache.py).     *)
(*                                                                         *)
(* A song is a record of the fields the code reads.  Text values are       *)
(* sequences of one-character strings, track numbers are tagged values     *)
(* (int, str or None, as JSON delivers them), durations are decimal digit  *)
(* strings as the service delivers them.                                   *)
(***************************************************************************)
EXTENDS Integers, Sequences, FiniteSets, TLC

VARIABLES
    now,          \* time.time(), in whole seconds
    songsFile,    \* ./cached_songs.json
    pgFile,       \* ./cached_partial_groups.json
    pc,           \* position of the process inside generate_similar_groups / build_groups
    songs,        \* build_groups: the argument
    groups,       \* build_groups: the local dict, as a sequence of <<key, members>>
    toProcess,    \* build_groups: songs_to_process
    index,        \* build_groups: the loop index of enumerate()
    loaded,       \* history: number of records the running call took from the checkpoint
    prevDone,     \* history: the previous call of build_groups returned normally
    prevResult,   \* history: what that call returned
    lastRead,     \* history: the last get_cached call (age of the entry, hit or miss)
    songA, songB, \* SongPair.song1, SongPair.song2
    res,          \* the scores and verdict computed for the pair
    cfile,        \* ./cached_<key>.json of the key that use_cache is called with
    call,         \* history: the last get_cached or use_cache call on cfile
    rgroups,      \* delete_duplicates / summarise_similar: the argument groups
    gi,           \* delete_duplicates: position of the loop in have_similar
    rpc,          \* position of the process inside delete_duplicates
    log           \* history: similarity evaluations, prompts, keys and API calls

vars == <<now, songsFile, pgFile, pc, songs, groups, toProcess, index,
          loaded, prevDone, prevResult, lastRead, songA, songB, res,
          cfile, call, rgroups, gi, rpc, log>>

buildVars == <<now, songsFile, pgFile, pc, songs, groups, toProcess, index,
               loaded, prevDone, prevResult, lastRead>>

scoreVars == <<songA, songB, res>>

cacheVars == <<cfile, call>>

resolveVars == <<rgroups, gi, rpc, log>>

----------------------------------------------------------------------------
(* Bounds *)

MaxSongs == 3          \* longest enumerated input sequence
LongLen == 102         \* length of the one long input (crosses the checkpoint interval)
MaxLibrary == 2        \* largest remote library
MaxDays == 1           \* the clock stops one second after this many days
MaxGroup == 3          \* largest group handed to SongGroup
MaxPrompts == 2        \* most prompts one group is given before the operator decides
MaxRuns == 2           \* most runs of delete_duplicates.py over one cached 'groups' entry

----------------------------------------------------------------------------
(* Small helpers *)

Min2(x, y) == IF x <= y THEN x ELSE y

Max2(x, y) == IF x >= y THEN x ELSE y

Rep(c, n) == [i \in 1..n |-> c]

Range(s) == {s[i] : i \in 1..Len(s)}

RAISE == -1            \* a score that is an exception leaving the property

----------------------------------------------------------------------------
(* Python's int() on the values the scorer hands it *)

Digits == <<"0", "1", "2", "3", "4", "5", "6", "7", "8", "9">>

IsDigit(c) == \E d \in 1..10 : Digits[d] = c

DigitVal(c) == (CHOOSE d \in 1..10 : Digits[d] = c) - 1

RECURSIVE DigitsVal(_)
DigitsVal(s) ==
    IF s = <<>> THEN 0
    ELSE 10 * DigitsVal(SubSeq(s, 1, Len(s) - 1)) + DigitVal(s[Len(s)])

RECURSIVE Strip(_)
Strip(s) ==
    IF s = <<>> THEN s
    ELSE IF s[1] = " " THEN Strip(Tail(s))
    ELSE IF s[Len(s)] = " " THEN Strip(SubSeq(s, 1, Len(s) - 1))
    ELSE s

\* int(str): surrounding blanks, an optional sign, then decimal digits;
\* anything else is ValueError
StrIsInt(s) ==
    LET t == Strip(s)
        u == IF t # <<>> /\ t[1] \in {"+", "-"} THEN Tail(t) ELSE t
    IN  u # <<>> /\ \A i \in 1..Len(u) : IsDigit(u[i])

StrToInt(s) ==
    LET t == Strip(s)
        u == IF t[1] \in {"+", "-"} THEN Tail(t) ELSE t
    IN  IF t[1] = "-" THEN 0 - DigitsVal(u) ELSE DigitsVal(u)

\* Track-number values: an int, a str or None
TInt(n) == [k |-> "int", n |-> n, s |-> <<>>]

TStr(s) == [k |-> "str", n |-> 0, s |-> s]

TNone == [k |-> "none", n |-> 0, s |-> <<>>]

\* int(value): "ok" with the integer, "TypeError" for None, "ValueError" for
\* text that is not a number
IntOf(v) ==
    IF v.k = "int" THEN [out |-> "ok", n |-> v.n]
    ELSE IF v.k = "none" THEN [out |-> "TypeError", n |-> 0]
    ELSE IF StrIsInt(v.s) THEN [out |-> "ok", n |-> StrToInt(v.s)]
    ELSE [out |-> "ValueError", n |-> 0]

----------------------------------------------------------------------------
(* fuzzywuzzy.fuzz.ratio: round(100 * 2*M / T), M the matched characters   *)
(* (longest common subsequence), T the summed lengths                      *)

RECURSIVE LCSRow(_, _, _, _)
LCSRow(prev, c, b, cur) ==
    IF Len(cur) = Len(b) + 1 THEN cur
    ELSE LET j == Len(cur)
             v == IF c = b[j] THEN prev[j] + 1 ELSE Max2(prev[j + 1], cur[j])
         IN  LCSRow(prev, c, b, Append(cur, v))

RECURSIVE LCSRows(_, _, _, _)
LCSRows(a, b, i, prev) ==
    IF i > Len(a) THEN prev[Len(b) + 1]
    ELSE LCSRows(a, b, i + 1, LCSRow(prev, a[i], b, <<0>>))

LCS(a, b) == LCSRows(a, b, 1, Rep(0, Len(b) + 1))

\* int(round(x)) for x = num / den, Python 3 rounding (half to even)
Intr(num, den) ==
    LET q == num \div den
        r == num % den
    IN  IF 2 * r > den THEN q + 1
        ELSE IF 2 * r = den THEN q + (q % 2)
        ELSE q

ratio(s1, s2) ==
    IF Len(s1) = 0 \/ Len(s2) = 0 THEN 0
    ELSE Intr(200 * LCS(s1, s2), Len(s1) + Len(s2))

----------------------------------------------------------------------------
(* SongPair *)

\* _get_string_score
GetStringScore(a, b, key) ==
    IF a[key] = b[key] THEN 100 ELSE ratio(a[key], b[key])

\* track_score; first is the member of the two-element set that the set
\* comprehension converts first
track_score(a, b, first) ==
    LET v1 == IF first = 1 THEN a.trackNumber ELSE b.trackNumber
        v2 == IF first = 1 THEN b.trackNumber ELSE a.trackNumber
        i1 == IntOf(v1)
        i2 == IntOf(v2)
    IN  IF a.trackNumber = b.trackNumber THEN 100
        ELSE IF i1.out = "TypeError" THEN 0
        ELSE IF i1.out = "ValueError" THEN RAISE
        ELSE IF i2.out = "TypeError" THEN 0
        ELSE IF i2.out = "ValueError" THEN RAISE
        ELSE IF i1.n = i2.n THEN 50
        ELSE 0

album_score(a, b) == GetStringScore(a, b, "album")

album_artist_score(a, b) == GetStringScore(a, b, "albumArtist")

artist_score(a, b) == GetStringScore(a, b, "artist")

title_score(a, b) == GetStringScore(a, b, "title")

duration_score_percent(a, b) ==
    LET d1 == StrToInt(a.durationMillis)
        d2 == StrToInt(b.durationMillis)
    IN  IF d1 = d2 THEN 100
        ELSE (100 * Min2(d1, d2)) \div Max2(d1, d2)

\* durations are non-negative, so int(min / max) is the integer quotient
duration_score(a, b) ==
    LET d1 == StrToInt(a.durationMillis)
        d2 == StrToInt(b.durationMillis)
    IN  IF d1 = d2 THEN 100
        ELSE 100 * (Min2(d1, d2) \div Max2(d1, d2))

score_names == <<"track", "duration", "album", "album_artist", "artist", "title">>

\* getattr(self, f"{name}_score")
ScoreOf(name, a, b, first) ==
    CASE name = "track" -> track_score(a, b, first)
      [] name = "duration" -> duration_score(a, b)
      [] name = "album" -> album_score(a, b)
      [] name = "album_artist" -> album_artist_score(a, b)
      [] name = "artist" -> artist_score(a, b)
      [] name = "title" -> title_score(a, b)

\* get_similarity_score: the dict of the six scores
get_similarity_score(a, b, first) ==
    [name \in Range(score_names) |-> ScoreOf(name, a, b, first)]

Exceeds_ge(score) == score >= 90

\* the test inside is_similar
Exceeds(score) == score > 90

\* is_similar: all() over the generator, in the order of score_names; it
\* stops at the first score that fails the test, and an exception raised by
\* a score it reaches leaves is_similar.  "true", "false" or "raise".
RECURSIVE AllFrom(_, _, _, _)
AllFrom(i, a, b, first) ==
    IF i > Len(score_names) THEN "true"
    ELSE LET s == ScoreOf(score_names[i], a, b, first)
         IN  IF s = RAISE THEN "raise"
             ELSE IF ~Exceeds(s) THEN "false"
             ELSE AllFrom(i + 1, a, b, first)

is_similar(a, b, first) == AllFrom(1, a, b, first)

\* final_score times the number of scores (the mean is this sum over six);
\* RAISE when a score raises
RECURSIVE SumFrom(_, _, _, _)
SumFrom(i, a, b, first) ==
    IF i > Len(score_names) THEN 0
    ELSE LET s == ScoreOf(score_names[i], a, b, first)
             rest == SumFrom(i + 1, a, b, first)
         IN  IF s = RAISE \/ rest = RAISE THEN RAISE ELSE s + rest

final_score_sum(a, b, first) == SumFrom(1, a, b, first)

----------------------------------------------------------------------------
(* The values the pair under comparison is drawn from *)

Hax == <<"H", "a", "x", "p", "r", "o", "c", "e", "s", "s">>

HaxSpace == Hax \o <<" ">>

HaxShort == SubSeq(Hax, 1, 9)

HaxZ == HaxShort \o <<"z">>

HeritageSpace == <<"H", "e", "r", "i", "t", "a", "g", "e", " ">>

Opeth == <<"O", "p", "e", "t", "h">>

D418000 == <<"4", "1", "8", "0", "0", "0">>

D100000 == <<"1", "0", "0", "0", "0", "0">>

D099999 == <<"9", "9", "9", "9", "9">>

D050000 == <<"5", "0", "0", "0", "0">>

D100000Padded == <<"0">> \o D100000

TrackValues == {TInt(6), TInt(7), TStr(<<"6">>), TStr(<<"A">>), TNone}

DurationValues == {D100000, D099999, D050000, D100000Padded}

TitleValues == {Hax, HaxSpace, HaxZ}

AlbumValues == {HeritageSpace, Opeth}

MkSong(id, tr, dur, al, aa, ar, ti) ==
    [id |-> id, trackNumber |-> tr, durationMillis |-> dur, album |-> al,
     albumArtist |-> aa, artist |-> ar, title |-> ti]

ScoreSongs ==
    {MkSong(0, tr, dur, al, <<>>, Opeth, ti) :
        tr \in TrackValues, dur \in DurationValues, al \in AlbumValues, ti \in TitleValues}

NoRes == [done |-> FALSE, scores |-> [name \in Range(score_names) |-> 0],
          similar |-> "false", final |-> 0]

----------------------------------------------------------------------------
(* Placeholders of the part of the state a specification does not use *)

NoFile == [st |-> "missing", ts |-> 0, data |-> <<>>]

NoRead == [key |-> "none", readable |-> FALSE, age |-> 0, hit |-> FALSE]

IdleBuild ==
    /\ now = 0
    /\ songsFile = NoFile
    /\ pgFile = NoFile
    /\ pc = "idle"
    /\ songs = <<>>
    /\ groups = <<>>
    /\ toProcess = <<>>
    /\ index = 0
    /\ loaded = 0
    /\ prevDone = FALSE
    /\ prevResult = <<>>
    /\ lastRead = NoRead

NoCall == [op |-> "none", exc |-> "none", fresh |-> FALSE, invoked |-> FALSE,
           hit |-> FALSE, wrote |-> FALSE, stored |-> FALSE, before |-> "missing",
           produced |-> "None", returned |-> "None"]

IdleCache ==
    /\ cfile = NoFile
    /\ call = NoCall

IdleResolve ==
    /\ rgroups = <<>>
    /\ gi = 0
    /\ rpc = "idle"
    /\ log = <<>>

IdleScore ==
    /\ songA = MkSong(0, TNone, D100000, <<>>, <<>>, <<>>, <<>>)
    /\ songB = MkSong(0, TNone, D100000, <<>>, <<>>, <<>>, <<>>)
    /\ res = NoRes

----------------------------------------------------------------------------
(* The track records.  A record is an immutable snapshot known by its      *)
(* identifier, so a group holds identifiers and SongOf gives the fields.   *)
(* 1 and 2 are exact duplicates; 3 and 4 are each similar to 1 and 2 but   *)
(* not to each other; 5 has no track number; from 6 on, two records are    *)
(* exact duplicates when their identifiers differ by a multiple of 50      *)
(* (51, 52, 101, 102 are again duplicates of 1 and 2).                     *)

BaseSong(id) == MkSong(id, TInt(6), D418000, HeritageSpace, <<>>, Opeth, Hax)

SongOf(id) ==
    CASE id % 50 \in {1, 2} -> BaseSong(id)
      [] id = 3 -> [BaseSong(id) EXCEPT !.title = HaxSpace]
      [] id = 4 -> [BaseSong(id) EXCEPT !.title = HaxShort]
      [] id = 5 -> [BaseSong(id) EXCEPT !.trackNumber = TNone]
      [] OTHER -> [BaseSong(id) EXCEPT !.trackNumber = TInt(100 + (id % 50))]

\* all sequences of distinct identifiers from ids, of length 1..n
RECURSIVE DistinctSeqs(_, _)
DistinctSeqs(ids, n) ==
    IF n = 0 THEN {<<>>}
    ELSE LET shorter == DistinctSeqs(ids, n - 1)
         IN  shorter \cup {Append(q, i) : q \in {r \in shorter : Len(r) = n - 1},
                                           i \in ids}

NoDup(q) == \A i, j \in 1..Len(q) : i # j => q[i] # q[j]

Libraries(ids, n) == {q \in DistinctSeqs(ids, n) : q # <<>> /\ NoDup(q)}

LongLibrary == [i \in 1..LongLen |-> i]

BuildLibs == Libraries(1..5, MaxSongs) \cup {LongLibrary}

----------------------------------------------------------------------------
(* cache.py *)

hour_in_seconds == 60 * 60

day_in_seconds == 24 * hour_in_seconds

cache_outdated_ge(cache_timestamp, t) == (t - cache_timestamp) >= day_in_seconds

cache_outdated(cache_timestamp, t) == (t - cache_timestamp) > day_in_seconds

\* What a cache file can hold (st):
\*   "missing"      no such file                        open: IOError
\*   "unreadable"   no permission, a directory          open: IOError
\*   "truncated"    empty or cut short, not JSON        json.load: JSONDecodeError
\*   "notobject"    JSON that is a list, a number, ...  cached["timestamp"]: TypeError
\*   "notimestamp"  an object without "timestamp"       cached["timestamp"]: KeyError
\*   "nokey"        an object with a timestamp only     cached[key]: KeyError
\*   "null"         what store_cache writes for None    cached[key] is None
\*   "ok"           what store_cache writes otherwise

\* get_cached at time t on the file of the key.  hit: a value other than
\* None is returned (data); exc: the exception that leaves get_cached
get_cached(file, t) ==
    IF file.st \in {"missing", "unreadable", "truncated"} THEN [hit |-> FALSE, data |-> <<>>, exc |-> "none"]
    ELSE IF file.st = "notobject" THEN [hit |-> FALSE, data |-> <<>>, exc |-> "TypeError"]
    ELSE IF file.st = "notimestamp" THEN [hit |-> FALSE, data |-> <<>>, exc |-> "KeyError"]
    ELSE IF cache_outdated(file.ts, t) THEN [hit |-> FALSE, data |-> <<>>, exc |-> "none"]
    ELSE IF file.st = "nokey" THEN [hit |-> FALSE, data |-> <<>>, exc |-> "KeyError"]
    ELSE IF file.st = "null" THEN [hit |-> FALSE, data |-> <<>>, exc |-> "none"]
    ELSE [hit |-> TRUE, data |-> file.data, exc |-> "none"]

\* store_cache, first half: open(filename, "w") leaves an empty file
OpenedForWrite == [st |-> "truncated", ts |-> 0, data |-> <<>>]

\* store_cache, second half: json.dump of the timestamp and the data
Dumped(data, t) == [st |-> "ok", ts |-> t, data |-> data]

ReadOf(key, file, t) ==
    [key |-> key, readable |-> file.st = "ok",
     age |-> IF file.st = "ok" THEN t - file.ts ELSE 0,
     hit |-> get_cached(file, t).hit]

----------------------------------------------------------------------------
(* groups.py: the clustering *)

NoneId == 0

\* is_similar_to_other_songs: all() over the members, stopping at the first
\* that is not similar.  The records of SongOf have numeric or absent track
\* numbers, for which the order inside track_score makes no difference.
RECURSIVE SimilarFrom(_, _, _)
SimilarFrom(i, song, other_songs) ==
    IF i > Len(other_songs) THEN "true"
    ELSE LET r == is_similar(SongOf(song), SongOf(other_songs[i]), 1)
         IN  IF r = "true" THEN SimilarFrom(i + 1, song, other_songs) ELSE r

is_similar_to_other_songs_seed(song, other_songs) ==
    is_similar(SongOf(song), SongOf(other_songs[1]), 1)

is_similar_to_other_songs(song, other_songs) == SimilarFrom(1, song, other_songs)

\* get_similar_song_id: the key of the first group, in dict order, all of
\* whose members are similar; NoneId if there is none; RAISE if a comparison
\* it reaches raises
RECURSIVE SimilarIdFrom(_, _, _)
SimilarIdFrom(g, song, grps) ==
    IF g > Len(grps) THEN NoneId
    ELSE LET r == is_similar_to_other_songs(song, grps[g].members)
         IN  IF r = "raise" THEN RAISE
             ELSE IF r = "true" THEN grps[g].key
             ELSE SimilarIdFrom(g + 1, song, grps)

get_similar_song_id_last(song, grps) ==
    LET matching == {g \in 1..Len(grps) :
                        is_similar_to_other_songs(song, grps[g].members) = "true"}
    IN  IF matching = {} THEN NoneId
        ELSE grps[CHOOSE g \in matching : \A h \in matching : h <= g].key

get_similar_song_id(song, grps) == SimilarIdFrom(1, song, grps)

HasKey(grps, key) == \E g \in 1..Len(grps) : grps[g].key = key

\* groups[key].append(song), or groups[key] = [song] on KeyError
AppendTo(grps, key, song) ==
    IF HasKey(grps, key)
    THEN [g \in 1..Len(grps) |->
            IF grps[g].key = key
            THEN [grps[g] EXCEPT !.members = Append(@, song)]
            ELSE grps[g]]
    ELSE Append(grps, [key |-> key, members |-> <<song>>])

add_song_to_correct_group(song, grps) ==
    LET similar_id == get_similar_song_id(song, grps)
        key == IF similar_id = NoneId THEN song ELSE similar_id
    IN  AppendTo(grps, key, song)

\* list(groups.values())
GroupValues(grps) == [g \in 1..Len(grps) |-> grps[g].members]

\* groups[key] = value of a dict: a key that is present keeps its place
DictSet(grps, key, value) ==
    IF HasKey(grps, key)
    THEN [g \in 1..Len(grps) |->
            IF grps[g].key = key THEN [key |-> key, members |-> value] ELSE grps[g]]
    ELSE Append(grps, [key |-> key, members |-> value])

LoadGroups_reversed(partial_groups) ==
    [g \in 1..Len(partial_groups) |->
        LET songs_ == partial_groups[Len(partial_groups) + 1 - g]
        IN  [key |-> songs_[1], members |-> songs_]]

LoadGroups_last(partial_groups) ==
    [g \in 1..Len(partial_groups) |->
        [key |-> partial_groups[g][Len(partial_groups[g])], members |-> partial_groups[g]]]

\* {songs[0]["id"]: songs for songs in partial_groups}
RECURSIVE LoadFrom(_, _, _)
LoadFrom(g, partial_groups, grps) ==
    IF g > Len(partial_groups) THEN grps
    ELSE LoadFrom(g + 1, partial_groups,
                  DictSet(grps, partial_groups[g][1], partial_groups[g]))

LoadGroups(partial_groups) == LoadFrom(1, partial_groups, <<>>)

SeenIds_seeds(grps) == {grps[g].key : g \in 1..Len(grps)}

\* {song["id"] for songs in groups.values() for song in songs}
SeenIds(grps) == UNION {Range(grps[g].members) : g \in 1..Len(grps)}

\* [song for song in songs if song["id"] not in seen_ids]
SongsToProcess(input, seen_ids) == SelectSeq(input, LAMBDA id : id \notin seen_ids)

CheckpointInterval == 100

\* index % 100 == 0
CheckpointDue(i) == i % CheckpointInterval = 0

----------------------------------------------------------------------------
(* build_groups, one action per statement.  pc is                          *)
(*   "load"   lines 169-172, before the try                                *)
(*   "iter"   the for statement asking the iterator for the next record    *)
(*   "open", "dump"   the two halves of store_cache inside the loop        *)
(*   "add"    add_song_to_correct_group                                    *)
(*   "ret"    return groups, after the try                                 *)
(*   "hopen", "hdump" store_cache in the KeyboardInterrupt handler         *)
(*   "done"   returned; "raised" the KeyboardInterrupt has left the call;  *)
(*   "error"  another exception has left it; "killed" the process is gone  *)

Stopped == {"idle", "done", "raised", "error", "killed"}

InTry == {"iter", "open", "dump", "add"}

Running == {"songs", "load", "ret", "hopen", "hdump"} \cup InTry

\* the locals of a new call of build_groups
EnterBuild ==
    /\ groups' = <<>>
    /\ toProcess' = <<>>
    /\ index' = 0
    /\ loaded' = 0

\* build_groups(songs) called again with the same argument; the history
\* variables keep the outcome of the call before
StartBuild ==
    /\ pc \in Stopped
    /\ pc' = "load"
    /\ EnterBuild
    /\ prevDone' = (pc = "done")
    /\ prevResult' = IF pc = "done" THEN groups ELSE <<>>
    /\ UNCHANGED <<now, songsFile, pgFile, songs, lastRead>>
    /\ UNCHANGED scoreVars
    /\ UNCHANGED cacheVars
    /\ UNCHANGED resolveVars

Load ==
    /\ pc = "load"
    /\ LET cached == get_cached(pgFile, now)
           partial_groups == IF cached.hit THEN cached.data ELSE <<>>
           grps == LoadGroups(partial_groups)
           seen_ids == SeenIds(grps)
       IN  /\ groups' = grps
           /\ toProcess' = SongsToProcess(songs, seen_ids)
           /\ loaded' = Cardinality(seen_ids)
    /\ lastRead' = ReadOf("partial_groups", pgFile, now)
    /\ index' = 0
    /\ pc' = "iter"
    /\ UNCHANGED <<now, songsFile, pgFile, songs, prevDone, prevResult>>
    /\ UNCHANGED scoreVars
    /\ UNCHANGED cacheVars
    /\ UNCHANGED resolveVars

Iterate ==
    /\ pc = "iter"
    /\ pc' = IF index >= Len(toProcess) THEN "ret"
             ELSE IF CheckpointDue(index) THEN "open"
             ELSE "add"
    /\ UNCHANGED <<now, songsFile, pgFile, songs, groups, toProcess, index,
                   loaded, prevDone, prevResult, lastRead>>
    /\ UNCHANGED scoreVars
    /\ UNCHANGED cacheVars
    /\ UNCHANGED resolveVars

StoreOpen ==
    /\ pc \in {"open", "hopen"}
    /\ pgFile' = OpenedForWrite
    /\ pc' = IF pc = "open" THEN "dump" ELSE "hdump"
    /\ UNCHANGED <<now, songsFile, songs, groups, toProcess, index,
                   loaded, prevDone, prevResult, lastRead>>
    /\ UNCHANGED scoreVars
    /\ UNCHANGED cacheVars
    /\ UNCHANGED resolveVars

StoreDump ==
    /\ pc \in {"dump", "hdump"}
    /\ pgFile' = Dumped(GroupValues(groups), now)
    /\ pc' = IF pc = "dump" THEN "add" ELSE "raised"
    /\ UNCHANGED <<now, songsFile, songs, groups, toProcess, index,
                   loaded, prevDone, prevResult, lastRead>>
    /\ UNCHANGED scoreVars
    /\ UNCHANGED cacheVars
    /\ UNCHANGED resolveVars

AddSong ==
    /\ pc = "add"
    /\ LET song == toProcess[index + 1]
       IN  IF get_similar_song_id(song, groups) = RAISE
           THEN /\ pc' = "error"
                /\ UNCHANGED <<groups, index>>
           ELSE /\ groups' = add_song_to_correct_group(song, groups)
                /\ index' = index + 1
                /\ pc' = "iter"
    /\ UNCHANGED <<now, songsFile, pgFile, songs, toProcess,
                   loaded, prevDone, prevResult, lastRead>>
    /\ UNCHANGED scoreVars
    /\ UNCHANGED cacheVars
    /\ UNCHANGED resolveVars

Return ==
    /\ pc = "ret"
    /\ pc' = "done"
    /\ UNCHANGED <<now, songsFile, pgFile, songs, groups, toProcess, index,
                   loaded, prevDone, prevResult, lastRead>>
    /\ UNCHANGED scoreVars
    /\ UNCHANGED cacheVars
    /\ UNCHANGED resolveVars

\* KeyboardInterrupt, once per call: inside the try it reaches the handler,
\* before and after the try it leaves build_groups at once
Interrupt ==
    /\ pc \in {"load", "ret"} \cup InTry
    /\ pc' = IF pc \in InTry THEN "hopen" ELSE "raised"
    /\ UNCHANGED <<now, songsFile, pgFile, songs, groups, toProcess, index,
                   loaded, prevDone, prevResult, lastRead>>
    /\ UNCHANGED scoreVars
    /\ UNCHANGED cacheVars
    /\ UNCHANGED resolveVars

\* the process is killed (SIGKILL, power loss): nothing more is executed
Kill ==
    /\ pc \in Running \ {"songs"}
    /\ pc' = "killed"
    /\ UNCHANGED <<now, songsFile, pgFile, songs, groups, toProcess, index,
                   loaded, prevDone, prevResult, lastRead>>
    /\ UNCHANGED scoreVars
    /\ UNCHANGED cacheVars
    /\ UNCHANGED resolveVars

\* Repeated calls of build_groups over one unchanging input
InitBuild ==
    /\ now = 0
    /\ songsFile = NoFile
    /\ pgFile = NoFile
    /\ pc = "idle"
    /\ songs \in BuildLibs
    /\ groups = <<>>
    /\ toProcess = <<>>
    /\ index = 0
    /\ loaded = 0
    /\ prevDone = FALSE
    /\ prevResult = <<>>
    /\ lastRead = NoRead
    /\ IdleScore
    /\ IdleCache
    /\ IdleResolve

NextBuild ==
    \/ StartBuild
    \/ Load
    \/ Iterate
    \/ StoreOpen
    \/ StoreDump
    \/ AddSong
    \/ Return
    \/ Interrupt
    \/ Kill

SpecBuild == InitBuild /\ [][NextBuild]_vars

----------------------------------------------------------------------------
(* Properties of repeated build_groups calls over one input *)

\* build_groups over the whole input in one uninterrupted call that starts
\* without a checkpoint: every record goes through add_song_to_correct_group
RECURSIVE FullFrom(_, _, _)
FullFrom(i, input, grps) ==
    IF i > Len(input) THEN grps
    ELSE FullFrom(i + 1, input, add_song_to_correct_group(input[i], grps))

FullRun(input) == FullFrom(1, input, <<>>)

\* the identifiers inside the checkpoint a later call can read
CheckpointIds ==
    IF get_cached(pgFile, now).hit
    THEN UNION {Range(pgFile.data[g]) : g \in 1..Len(pgFile.data)}
    ELSE {}

\* how often a record occurs in the groups
RECURSIVE CountIn(_, _)
CountIn(q, id) ==
    IF q = <<>> THEN 0
    ELSE (IF Head(q) = id THEN 1 ELSE 0) + CountIn(Tail(q), id)

RECURSIVE Occurrences(_, _, _)
Occurrences(g, grps, id) ==
    IF g > Len(grps) THEN 0
    ELSE CountIn(grps[g].members, id) + Occurrences(g + 1, grps, id)

MemberSets(grps) == {Range(grps[g].members) : g \in 1..Len(grps)}

\* C1: a call of build_groups that resumes from a checkpoint written after
\* any number of records returns exactly the groups (same keys, same members,
\* same order) that one uninterrupted call without a checkpoint returns
C1_ResumeCorrect == pc = "done" => groups = FullRun(songs)

\* a call that took a proper, non-empty part of the input from a checkpoint
\* has returned
C1_Witness == pc = "done" /\ loaded > 0 /\ loaded < Len(songs)

\* C2: when the KeyboardInterrupt has left build_groups, the readable
\* checkpoint contains every record that is in a group
C2_InterruptKeepsWork == pc = "raised" => SeenIds(groups) \subseteq CheckpointIds

\* C3: when the process has been killed, at most one checkpoint interval of
\* grouped records is missing from the readable checkpoint
C3_KillLosesAtMostInterval ==
    pc = "killed" => Cardinality(SeenIds(groups) \ CheckpointIds) <= CheckpointInterval

\* C4: when build_groups returns, every input record occurs exactly once in
\* the returned groups, whatever checkpoint the call started from
C4_NoTrackTwice ==
    pc = "done" => \A i \in 1..Len(songs) : Occurrences(1, groups, songs[i]) = 1

\* a call that started from a non-empty checkpoint has returned a group of
\* several records
C4_Witness ==
    /\ pc = "done"
    /\ loaded > 0
    /\ \E g \in 1..Len(groups) : Len(groups[g].members) > 1

\* the groups, by position, every member of which is_similar to the record
Matching(song, grps) ==
    {g \in 1..Len(grps) :
        \A i \in 1..Len(grps[g].members) :
            is_similar(SongOf(song), SongOf(grps[g].members[i]), 1) = "true"}

\* C18: the step that assigns a record appends it to the first group, in
\* the order of the dict, all of whose members are similar to it, and changes
\* no other group; it adds a new last group holding only the record, under
\* the record's identifier, exactly when no group matches; and the key of
\* every group is the identifier of its first member
C18_GreedyFirstMatch ==
    [][/\ (pc = "add" /\ pc' = "iter") =>
            LET song == toProcess[index + 1]
                matching == Matching(song, groups)
            IN  IF matching = {}
                THEN groups' = Append(groups, [key |-> song, members |-> <<song>>])
                ELSE LET first == CHOOSE g \in matching : \A h \in matching : g <= h
                     IN  groups' = [groups EXCEPT ![first].members = Append(@, song)]
       /\ \A g \in 1..Len(groups') : groups'[g].key = groups'[g].members[1]]_vars

\* record 1 is similar to the two groups of 3 and of 4 and went to the first
C18_Witness ==
    /\ pc = "done"
    /\ Len(groups) = 2
    /\ groups[1].members = <<3, 1>>
    /\ groups[2].members = <<4>>
    /\ Matching(1, <<[key |-> 3, members |-> <<3>>], [key |-> 4, members |-> <<4>>]>>) = {1, 2}

\* C21: while build_groups runs from an empty checkpoint, and when it has
\* returned, any two distinct members of any group are similar, whichever of
\* the two is song1 and whichever value the set yields first
C21_GroupsAreCliques ==
    loaded = 0 =>
        \A g \in 1..Len(groups) : \A i, j \in 1..Len(groups[g].members) :
            i # j => \A first \in {1, 2} :
                is_similar(SongOf(groups[g].members[i]), SongOf(groups[g].members[j]),
                           first) = "true"

\* record 4 is similar to the seed 1 of the group of 1 and 3 but not to 3,
\* and was not admitted
C21_Witness ==
    /\ pc = "done"
    /\ loaded = 0
    /\ Len(groups) = 2
    /\ groups[1].members = <<1, 3>>
    /\ groups[2].members = <<4>>
    /\ is_similar(SongOf(4), SongOf(1), 1) = "true"
    /\ is_similar(SongOf(4), SongOf(3), 1) = "false"

\* C6: two calls in a row that both return yield groups with the same
\* membership sets
C6_Idempotent == (pc = "done" /\ prevDone) => MemberSets(groups) = MemberSets(prevResult)

\* the second of two completed calls started from the checkpoint the first
\* left behind and still had records to process
C6_Witness == pc = "done" /\ prevDone /\ loaded > 0 /\ toProcess # <<>>

----------------------------------------------------------------------------
(* generate_similar_groups, run again and again while time passes and the  *)
(* remote library changes: get_all_songs (the 'songs' snapshot through     *)
(* use_cache), then build_groups on what it returned                       *)

\* the instants at which the clock is looked at: around every whole day
TimePoints ==
    {t \in {d * day_in_seconds + e : d \in 0..MaxDays, e \in {-1, 0, 1}} : t >= 0}

ServerLibs == Libraries(1..3, MaxLibrary)

Tick ==
    /\ \E t \in TimePoints : t > now /\ now' = t
    /\ UNCHANGED <<songsFile, pgFile, pc, songs, groups, toProcess, index,
                   loaded, prevDone, prevResult, lastRead>>
    /\ UNCHANGED scoreVars
    /\ UNCHANGED cacheVars
    /\ UNCHANGED resolveVars

StartRun ==
    /\ pc \in Stopped
    /\ pc' = "songs"
    /\ EnterBuild
    /\ UNCHANGED <<now, songsFile, pgFile, songs, prevDone, prevResult, lastRead>>
    /\ UNCHANGED scoreVars
    /\ UNCHANGED cacheVars
    /\ UNCHANGED resolveVars

\* get_all_songs: use_cache("songs", ...) returns the snapshot if get_cached
\* finds it, and otherwise fetches the library, whatever the remote service
\* holds at that moment, and stores it
GetAllSongs ==
    /\ pc = "songs"
    /\ LET cached == get_cached(songsFile, now)
       IN  IF cached.hit
           THEN /\ songs' = cached.data
                /\ UNCHANGED songsFile
           ELSE \E library \in ServerLibs :
                    /\ songs' = library
                    /\ songsFile' = Dumped(library, now)
    /\ lastRead' = ReadOf("songs", songsFile, now)
    /\ pc' = "load"
    /\ UNCHANGED <<now, pgFile, groups, toProcess, index,
                   loaded, prevDone, prevResult>>
    /\ UNCHANGED scoreVars
    /\ UNCHANGED cacheVars
    /\ UNCHANGED resolveVars

Init ==
    /\ now = 0
    /\ songsFile = NoFile
    /\ pgFile = NoFile
    /\ pc = "idle"
    /\ songs = <<>>
    /\ groups = <<>>
    /\ toProcess = <<>>
    /\ index = 0
    /\ loaded = 0
    /\ prevDone = FALSE
    /\ prevResult = <<>>
    /\ lastRead = NoRead
    /\ IdleScore
    /\ IdleCache
    /\ IdleResolve

Next ==
    \/ Tick
    \/ StartRun
    \/ GetAllSongs
    \/ Load
    \/ Iterate
    \/ StoreOpen
    \/ StoreDump
    \/ AddSong
    \/ Return
    \/ Interrupt
    \/ Kill

Spec == Init /\ [][Next]_vars

\* C5: in every call of build_groups, every identifier taken from the
\* checkpoint (and so every identifier in the groups) belongs to the input
C5_CheckpointWithinInput ==
    pc \in (InTry \cup {"ret", "done"}) => SeenIds(groups) \subseteq Range(songs)

\* C10: get_cached returns the payload only if the entry is younger than 24
\* hours; at an age of 24 hours or more it returns None
C10_FreshOnlyBelowDay ==
    /\ lastRead.hit => lastRead.age < day_in_seconds
    /\ (lastRead.readable /\ lastRead.age >= day_in_seconds) => ~lastRead.hit

\* C10, as the code has it: get_cached returns the payload exactly when the
\* file is readable and the entry is at most 24 hours old, and None when it
\* is older than 24 hours
C10_FreshWithinDay ==
    /\ lastRead.hit <=> (lastRead.readable /\ lastRead.age <= day_in_seconds)
    /\ (lastRead.readable /\ lastRead.age > day_in_seconds) => ~lastRead.hit

\* both sides of the boundary have been read: the last read found an entry
\* exactly 24 hours old, and the other file holds an entry stored earlier
\* that is now older than 24 hours
C10_Witness ==
    /\ lastRead.key = "partial_groups"
    /\ lastRead.hit
    /\ lastRead.age = day_in_seconds
    /\ songsFile.st = "ok"
    /\ now - songsFile.ts > day_in_seconds
    /\ ~get_cached(songsFile, now).hit

----------------------------------------------------------------------------
(* get_cached and use_cache on one key, over every content the file of the *)
(* key can have, while time passes                                         *)

\* what a producer can return, as the JSON text that store_cache writes
NonePayload == "None"

Payloads == {NonePayload, "[]", "[1]", "[2]"}

\* store_cache(data, key), both halves
Stored(data, t) ==
    IF data = NonePayload
    THEN [st |-> "null", ts |-> t, data |-> data]
    ELSE Dumped(data, t)

\* the files the first call can find
FileContents ==
    {[st |-> st, ts |-> 0, data |-> IF st = "ok" THEN "[1]" ELSE NonePayload] :
        st \in {"missing", "unreadable", "truncated", "notobject", "notimestamp",
                "nokey", "null", "ok"}}

\* a fresh entry exists for the key: the file is one that store_cache wrote
\* and its timestamp is not outdated
FreshEntry(file, t) ==
    file.st \in {"ok", "null"} /\ ~cache_outdated(file.ts, t)

\* use_cache(key, func) at time t when func would return produced: the
\* outcome and the file it leaves
use_cache(file, t, produced) ==
    LET got == get_cached(file, t)
    IN  IF got.exc # "none"
        THEN [exc |-> got.exc, invoked |-> FALSE, returned |-> NonePayload, file |-> file]
        ELSE IF ~got.hit
        THEN [exc |-> "none", invoked |-> TRUE, returned |-> produced,
              file |-> Stored(produced, t)]
        ELSE [exc |-> "none", invoked |-> FALSE, returned |-> got.data, file |-> file]

GetCached ==
    /\ LET got == get_cached(cfile, now)
       IN  call' = [op |-> "get_cached", exc |-> got.exc,
                    fresh |-> FreshEntry(cfile, now), invoked |-> FALSE,
                    hit |-> got.hit, wrote |-> FALSE, stored |-> FALSE,
                    before |-> cfile.st,
                    produced |-> NonePayload,
                    returned |-> IF got.hit THEN got.data ELSE NonePayload]
    /\ UNCHANGED <<now, cfile>>
    /\ UNCHANGED <<songsFile, pgFile, pc, songs, groups, toProcess, index,
                   loaded, prevDone, prevResult, lastRead>>
    /\ UNCHANGED scoreVars
    /\ UNCHANGED resolveVars

UseCache ==
    /\ \E produced \in Payloads :
         LET out == use_cache(cfile, now, produced)
         IN  /\ cfile' = out.file
             /\ call' = [op |-> "use_cache", exc |-> out.exc,
                         fresh |-> FreshEntry(cfile, now), invoked |-> out.invoked,
                         hit |-> get_cached(cfile, now).hit, wrote |-> out.file # cfile,
                         stored |-> out.file = Stored(produced, now),
                         before |-> cfile.st,
                         produced |-> IF out.invoked THEN produced ELSE NonePayload,
                         returned |-> out.returned]
    /\ UNCHANGED now
    /\ UNCHANGED <<songsFile, pgFile, pc, songs, groups, toProcess, index,
                   loaded, prevDone, prevResult, lastRead>>
    /\ UNCHANGED scoreVars
    /\ UNCHANGED resolveVars

InitCache ==
    /\ IdleBuild
    /\ IdleScore
    /\ IdleResolve
    /\ cfile \in FileContents
    /\ call = NoCall

NextCache ==
    \/ GetCached
    \/ UseCache
    \/ Tick

SpecCache == InitCache /\ [][NextCache]_vars

\* C11: get_cached never raises: whatever the file of the key holds, no
\* exception leaves it, and for every content that is not a fresh entry
\* written by store_cache it returns None
C11_ReadsNeverRaise ==
    call.op = "get_cached" =>
        /\ call.exc = "none"
        /\ (call.before # "ok" \/ ~call.fresh) => ~call.hit

\* C12: a use_cache call that returns invokes the producer exactly when no
\* fresh entry exists for the key; with a fresh entry it returns without
\* writing the file; so once a call has stored the producer's result, no call
\* inside the freshness window invokes the producer again
C12_MemoizeContract ==
    (call.op = "use_cache" /\ call.exc = "none") =>
        /\ call.invoked <=> ~call.fresh
        /\ call.fresh => ~call.wrote
        /\ call.invoked => (call.returned = call.produced /\ call.stored)

----------------------------------------------------------------------------
(* Scoring one pair: get_similarity_score, is_similar and final_score *)

InitScore ==
    /\ IdleBuild
    /\ IdleCache
    /\ IdleResolve
    /\ songA \in ScoreSongs
    /\ songB \in ScoreSongs
    /\ res = NoRes

\* A set of two values yields them in an order that depends on their hashes,
\* and the hash of a str changes from one process to the next: either order
Compare ==
    /\ ~res.done
    /\ \E first \in {1, 2} :
         res' = [done |-> TRUE,
                 scores |-> get_similarity_score(songA, songB, first),
                 similar |-> is_similar(songA, songB, first),
                 final |-> final_score_sum(songA, songB, first)]
    /\ UNCHANGED <<songA, songB>>
    /\ UNCHANGED buildVars
    /\ UNCHANGED cacheVars
    /\ UNCHANGED resolveVars

NextScore == Compare

SpecScore == InitScore /\ [][NextScore]_vars

AllNames == Range(score_names)

DurationOf(song) == StrToInt(song.durationMillis)

\* C7: is_similar returns True exactly when each of the six scores is
\* strictly greater than 90, whatever their mean is
C7_SimilarIffAllAbove90 ==
    res.done =>
        (res.similar = "true" <=> \A name \in AllNames : res.scores[name] > 90)

\* a pair with one score of exactly 90 and five scores of 100: the mean is
\* above 90 and the pair is not similar
C7_Witness ==
    /\ res.done
    /\ res.similar = "false"
    /\ res.scores["title"] = 90
    /\ \A name \in AllNames \ {"title"} : res.scores[name] = 100
    /\ res.final > 90 * Len(score_names)

\* C8: track_score never raises: it is 100 for identical values, 0 for
\* different values of which one is not an integer (None or text that is
\* not a number), and 50 for different values that are the same integer
C8_TrackScoreNeverRaises ==
    res.done =>
        LET ta == songA.trackNumber
            tb == songB.trackNumber
            score == res.scores["track"]
        IN  /\ ta = tb => score = 100
            /\ (ta # tb /\ (IntOf(ta).out # "ok" \/ IntOf(tb).out # "ok")) => score = 0
            /\ (ta # tb /\ IntOf(ta).out = "ok" /\ IntOf(tb).out = "ok"
                  /\ IntOf(ta).n = IntOf(tb).n) => score = 50

\* C9: duration_score is 100 for equal durations and 0 for any two unequal
\* positive durations, so it is never anything but 0 or 100
C9_DurationZeroOrHundred ==
    res.done =>
        LET score == res.scores["duration"]
        IN  /\ DurationOf(songA) = DurationOf(songB) => score = 100
            /\ DurationOf(songA) # DurationOf(songB) => score = 0
            /\ score \in {0, 100}

\* 100000 ms against 99999 ms has been scored 0
C9_Witness ==
    /\ res.done
    /\ {DurationOf(songA), DurationOf(songB)} = {100000, 99999}
    /\ res.scores["duration"] = 0

----------------------------------------------------------------------------
(* SongGroup: which record of a group is kept and which are discarded *)

\* a track record as the API returns it (test_song.py): the scored fields,
\* playCount an int, the two timestamps decimal text
FullSong(id, plays, created, recent, ti) ==
    [id |-> id, trackNumber |-> TInt(6), durationMillis |-> D418000,
     album |-> HeritageSpace, albumArtist |-> <<>>, artist |-> Opeth, title |-> ti,
     playCount |-> plays, creationTimestamp |-> created, recentTimestamp |-> recent]

\* a comprehension, built once as a list
List(f) == SubSeq(f, 1, Len(f))

\* sorted(q, key=..., reverse=...): keys[i] is the key of q[i]; the sort is
\* stable, and with reverse=True equal keys still keep their order
sorted(q, keys, reverse) ==
    LET n == Len(q)
        Before(j, i) ==
            \/ IF reverse THEN keys[j] > keys[i] ELSE keys[j] < keys[i]
            \/ keys[j] = keys[i] /\ j < i
        Rank(i) == Cardinality({j \in 1..n : Before(j, i)}) + 1
    IN  List([p \in 1..n |-> q[CHOOSE i \in 1..n : Rank(i) = p]])

_get_creation(song) == StrToInt(song.creationTimestamp)

_get_play_count(song) == song.playCount

get_keep_song_one_pass(group) ==
    sorted(group, List([i \in 1..Len(group) |-> _get_play_count(group[i])]), TRUE)[1]

get_keep_song(group) ==
    LET by_added_date ==
            sorted(group, List([i \in 1..Len(group) |-> _get_creation(group[i])]), FALSE)
        by_play_count ==
            sorted(by_added_date,
                   List([i \in 1..Len(group) |-> _get_play_count(by_added_date[i])]), TRUE)
    IN  by_play_count[1]

get_discard_songs_by_plays(group) ==
    LET keep_song == get_keep_song(group)
    IN  SelectSeq(group, LAMBDA song : song.playCount # keep_song.playCount)

get_discard_songs(group) ==
    LET keep_song == get_keep_song(group)
    IN  SelectSeq(group, LAMBDA song : song # keep_song)

IdsOf(q) == List([i \in 1..Len(q) |-> q[i].id])

\* one entry of the history: what was done (op) for the group at position g of
\* the argument, with the values the operation printed or sent
Event(op, g) ==
    [op |-> op, g |-> g, id |-> NoneId, n |-> 0, t |-> <<0, 0>>, ids |-> <<>>,
     key |-> "", ok |-> TRUE]

Created50 == <<"5", "0">>

Created100 == <<"1", "0", "0">>

Created200 == <<"2", "0", "0">>

Recent1 == <<"1", "5", "0", "0", "0", "0", "0">>

Recent2 == <<"2", "0", "0", "0", "0", "0", "1">>

\* every group of 1..n records over the given counters; the record at
\* position i has the identifier base + i
RECURSIVE GroupsOver(_, _, _)
GroupsOver(menu, base, n) ==
    IF n = 0 THEN {<<>>}
    ELSE LET shorter == GroupsOver(menu, base, n - 1)
         IN  shorter \cup
             {Append(q, [m EXCEPT !.id = base + n]) :
                 q \in {r \in shorter : Len(r) = n - 1}, m \in menu}

KeepMenu ==
    {FullSong(0, plays, created, Recent1, Hax) :
        plays \in {3, 5}, created \in {Created50, Created100, Created200}}

\* group.get_keep_song()
GetKeepSong ==
    /\ rpc = "idle"
    /\ rpc' = "kept"
    /\ log' = Append(log, [Event("keep", 1) EXCEPT !.id = get_keep_song(rgroups[1]).id])
    /\ UNCHANGED <<rgroups, gi>>
    /\ UNCHANGED buildVars
    /\ UNCHANGED scoreVars
    /\ UNCHANGED cacheVars

\* group.get_discard_songs(), which asks for the keep song again
GetDiscardSongs ==
    /\ rpc = "kept"
    /\ rpc' = "done"
    /\ log' = Append(log, [Event("discard", 1) EXCEPT
                              !.id = get_keep_song(rgroups[1]).id,
                              !.ids = IdsOf(get_discard_songs(rgroups[1]))])
    /\ UNCHANGED <<rgroups, gi>>
    /\ UNCHANGED buildVars
    /\ UNCHANGED scoreVars
    /\ UNCHANGED cacheVars

InitKeep ==
    /\ IdleBuild
    /\ IdleScore
    /\ IdleCache
    /\ \E g \in GroupsOver(KeepMenu, 10, MaxGroup) \ {<<>>} : rgroups = <<g>>
    /\ gi = 0
    /\ rpc = "idle"
    /\ log = <<>>

NextKeep ==
    \/ GetKeepSong
    \/ GetDiscardSongs

SpecKeep == InitKeep /\ [][NextKeep]_vars

Events(op) == {k \in 1..Len(log) : log[k].op = op}

\* the member of the group at position g that has the identifier id
Member(g, id) ==
    rgroups[g][CHOOSE i \in 1..Len(rgroups[g]) : rgroups[g][i].id = id]

PositionOf(g, id) == CHOOSE i \in 1..Len(rgroups[g]) : rgroups[g][i].id = id

\* C13: the song get_keep_song returns has the largest play count of the
\* group and, among the members with that play count, the smallest creation
\* timestamp; among the members equal on both it is the first in group
\* order; and every call on the same group returns the same member
C13_KeepSongSelection ==
    \A k \in Events("keep") \cup Events("discard") :
        LET grp == rgroups[log[k].g]
            kept == Member(log[k].g, log[k].id)
            at == PositionOf(log[k].g, log[k].id)
        IN  /\ \A i \in 1..Len(grp) : grp[i].playCount <= kept.playCount
            /\ \A i \in 1..Len(grp) :
                  grp[i].playCount = kept.playCount =>
                      StrToInt(kept.creationTimestamp) <= StrToInt(grp[i].creationTimestamp)
            /\ \A i \in 1..Len(grp) :
                  (/\ grp[i].playCount = kept.playCount
                   /\ StrToInt(grp[i].creationTimestamp) = StrToInt(kept.creationTimestamp))
                      => at <= i
            /\ \A j \in Events("keep") \cup Events("discard") : log[j].id = log[k].id

\* the group of the example: play counts 5, 5, 3 created at 200, 100, 50
\* keeps the record with play count 5 created at 100
C13_Witness ==
    /\ rpc = "done"
    /\ Len(rgroups) = 1 /\ Len(rgroups[1]) = 3
    /\ [i \in 1..3 |-> rgroups[1][i].playCount] = <<5, 5, 3>>
    /\ [i \in 1..3 |-> rgroups[1][i].creationTimestamp] = <<Created200, Created100, Created50>>
    /\ log[1].op = "keep" /\ log[1].id = rgroups[1][2].id

\* C19: the discarded songs are all the members but the kept one, in group
\* order: one fewer than the group, no identifier twice, never the kept one
C19_KeepNeverDiscarded ==
    \A k \in Events("discard") :
        LET grp == rgroups[log[k].g]
        IN  /\ log[k].ids = SelectSeq(IdsOf(grp), LAMBDA id : id # log[k].id)
            /\ Len(log[k].ids) = Len(grp) - 1
            /\ NoDup(log[k].ids)
            /\ log[k].id \notin Range(log[k].ids)

C19_Witness ==
    /\ rpc = "done"
    /\ Len(rgroups[1]) = 3
    /\ \A i \in 1..3 : rgroups[1][i].playCount = 5
    /\ Len(log[2].ids) = 2

----------------------------------------------------------------------------
(* delete_duplicates and summarise_similar: the two drivers over the groups *)

\* combinations(range(n), 2), in the order itertools yields them
RECURSIVE PairsFrom(_, _, _)
PairsFrom(n, i, j) ==
    IF i >= n THEN <<>>
    ELSE IF j > n THEN PairsFrom(n, i + 1, i + 2)
    ELSE <<<<i, j>>>> \o PairsFrom(n, i, j + 1)

get_all_pairs(group) == PairsFrom(Len(group), 1, 2)

\* the sum of final_score over the pairs from the k-th on, each final_score
\* times the number of scores; RAISE when a score raises
RECURSIVE PairSumFrom(_, _, _)
PairSumFrom(group, pairs, k) ==
    IF k > Len(pairs) THEN 0
    ELSE LET s == final_score_sum(group[pairs[k][1]], group[pairs[k][2]], 1)
             rest == PairSumFrom(group, pairs, k + 1)
         IN  IF s = RAISE \/ rest = RAISE THEN RAISE ELSE s + rest

\* get_similarity(): the mean of the pairs' mean scores is
\* sum / (pairs * number of scores), kept as the exact integers sum and pairs
get_similarity(group) ==
    LET pairs == get_all_pairs(group)
        sum == PairSumFrom(group, pairs, 1)
    IN  IF sum = RAISE THEN [out |-> "TypeError", sum |-> 0, pairs |-> Len(pairs)]
        ELSE IF pairs = <<>> THEN [out |-> "ZeroDivisionError", sum |-> 0, pairs |-> 0]
        ELSE [out |-> "ok", sum |-> sum, pairs |-> Len(pairs)]

\* get_similarity() < 100
BelowHundred_ninety(sim) == sim.sum < 90 * Len(score_names) * sim.pairs

BelowHundred(sim) == sim.sum < 100 * Len(score_names) * sim.pairs

\* [group for group in song_groups if len(group) > 1], as positions in groups
have_similar_nonempty(grps) ==
    SelectSeq([g \in 1..Len(grps) |-> g], LAMBDA g : Len(grps[g]) > 0)

have_similar(grps) ==
    SelectSeq([g \in 1..Len(grps) |-> g], LAMBDA g : Len(grps[g]) > 1)

RECURSIVE SumPlays(_)
SumPlays(q) == IF q = <<>> THEN 0 ELSE q[1].playCount + SumPlays(Tail(q))

extra_plays(group) == SumPlays(get_discard_songs(group))

most_recent_timestamp_discarded(group) ==
    LET timestamps ==
            {StrToInt(song.recentTimestamp) : song \in Range(get_discard_songs(group))}
    IN  CHOOSE x \in timestamps : \A y \in timestamps : y <= x

most_recent_timestamp(group) ==
    LET timestamps == {StrToInt(song.recentTimestamp) : song \in Range(group)}
    IN  CHOOSE x \in timestamps : \A y \in timestamps : y <= x

\* datetime.fromtimestamp(microseconds / 10 ** 6): seconds and microseconds
playtime(microseconds) == <<microseconds \div 10^6, microseconds % 10^6>>

\* _delete_duplicates after increment_song_playcount returned or raised
AfterMerge_ignored(ok) == "delete"

AfterMerge(ok) == IF ok THEN "delete" ELSE "raised"

Keys == {"y", "n", "enter", "return", "x"}

\* confirm_delete after keyboard.read_key() returned key
AfterKey_default_yes(key) ==
    IF key \in {"n", "enter", "return"} THEN "next" ELSE "merge"

AfterKey(key) ==
    IF key \in {"n", "enter", "return"} THEN "next"
    ELSE IF key = "y" THEN "merge"
    ELSE "prompt"

\* what confirm_delete prints before it reads a key
Prompt(g) ==
    [Event("prompt", g) EXCEPT !.id = get_keep_song(rgroups[g]).id,
                               !.ids = IdsOf(get_discard_songs(rgroups[g]))]

CurrentGroup == have_similar(rgroups)[gi]

\* the loop of delete_duplicates moves to the next group or ends
NextGroup ==
    /\ gi' = gi + 1
    /\ rpc' = IF gi + 1 > Len(have_similar(rgroups)) THEN "done" ELSE "group"

\* delete_duplicates(groups, api): the two comprehensions
StartDelete ==
    /\ rpc = "idle"
    /\ gi = 0
    /\ NextGroup
    /\ UNCHANGED <<rgroups, log>>
    /\ UNCHANGED buildVars
    /\ UNCHANGED scoreVars
    /\ UNCHANGED cacheVars

\* group.auto_manage(api) up to its first API call, and, when it returns
\* False, confirm_delete up to its first read_key
AutoManage ==
    /\ rpc = "group"
    /\ LET g == CurrentGroup
           sim == get_similarity(rgroups[g])
           evaluated == Append(log, [Event("similarity", g) EXCEPT !.n = Len(rgroups[g])])
       IN  IF sim.out # "ok"
           THEN /\ rpc' = "raised"
                /\ log' = evaluated
           ELSE IF BelowHundred(sim)
           THEN /\ rpc' = "prompt"
                /\ log' = Append(evaluated, Prompt(g))
           ELSE /\ rpc' = "merge"
                /\ log' = evaluated
    /\ UNCHANGED <<rgroups, gi>>
    /\ UNCHANGED buildVars
    /\ UNCHANGED scoreVars
    /\ UNCHANGED cacheVars

\* _combine_play_counts(api): the call to the API returns or raises
CombinePlayCounts ==
    /\ rpc = "merge"
    /\ LET group == rgroups[CurrentGroup]
       IN  IF extra_plays(group) = 0
           THEN /\ rpc' = "delete"
                /\ log' = log
           ELSE \E ok \in BOOLEAN :
                /\ rpc' = AfterMerge(ok)
                /\ log' = Append(log, [Event("increment", CurrentGroup) EXCEPT
                                         !.id = get_keep_song(group).id,
                                         !.n = extra_plays(group),
                                         !.t = playtime(most_recent_timestamp(group)),
                                         !.ok = ok])
    /\ UNCHANGED <<rgroups, gi>>
    /\ UNCHANGED buildVars
    /\ UNCHANGED scoreVars
    /\ UNCHANGED cacheVars

\* api.delete_songs(discard_ids) returns or raises
DeleteSongs ==
    /\ rpc = "delete"
    /\ \E ok \in BOOLEAN :
         /\ log' = Append(log, [Event("delete", CurrentGroup) EXCEPT
                                  !.ids = IdsOf(get_discard_songs(rgroups[CurrentGroup])),
                                  !.ok = ok])
         /\ IF ok THEN NextGroup ELSE rpc' = "raised" /\ gi' = gi
    /\ UNCHANGED rgroups
    /\ UNCHANGED buildVars
    /\ UNCHANGED scoreVars
    /\ UNCHANGED cacheVars

\* keyboard.read_key() returns inside the loop of confirm_delete
ReadKey ==
    /\ rpc = "prompt"
    /\ \E key \in Keys :
         LET read == Append(log, [Event("key", CurrentGroup) EXCEPT !.key = key])
             to == AfterKey(key)
             prompts == Cardinality({k \in Events("prompt") : log[k].g = CurrentGroup})
         IN  /\ to = "prompt" => prompts < MaxPrompts
             /\ log' = IF to = "prompt" THEN Append(read, Prompt(CurrentGroup)) ELSE read
             /\ IF to = "next" THEN NextGroup ELSE rpc' = to /\ gi' = gi
    /\ UNCHANGED rgroups
    /\ UNCHANGED buildVars
    /\ UNCHANGED scoreVars
    /\ UNCHANGED cacheVars

RECURSIVE Product(_)
Product(q) == IF q = <<>> THEN 1 ELSE q[1] * Product(Tail(q))

\* the sort keys of summarise_similar as integers: every mean times the
\* product of all the numbers of pairs (and the number of scores)
SortKeys(sims) ==
    LET scale == Product(List([k \in 1..Len(sims) |-> sims[k].pairs]))
    IN  List([k \in 1..Len(sims) |-> sims[k].sum * (scale \div sims[k].pairs)])

\* summarise_similar(groups): get_similarity is the sort key of every group
\* that passed the filter, then each group is printed with its similarity
Summarise ==
    /\ rpc = "idle"
    /\ gi = 0
    /\ \E have \in {have_similar(rgroups)} :
       \E sims \in {List([k \in 1..Len(have) |-> get_similarity(rgroups[have[k]])])} :
         LET bad == {k \in 1..Len(have) : sims[k].out # "ok"}
             keyed == List([k \in 1..Len(have) |->
                          [Event("similarity", have[k]) EXCEPT !.n = Len(rgroups[have[k]])]])
         IN  IF bad # {}
             THEN /\ rpc' = "raised"
                  /\ log' = SubSeq(keyed, 1, CHOOSE k \in bad : \A j \in bad : k <= j)
             ELSE \E keys \in {SortKeys(sims)} :
                  \E guesses_last \in {sorted(have, keys, TRUE)} :
                  /\ rpc' = "done"
                  /\ log' = keyed \o List([k \in 1..Len(have) |->
                                              [Event("summary", guesses_last[k]) EXCEPT
                                                  !.n = Len(rgroups[guesses_last[k]])]])
    /\ UNCHANGED <<rgroups, gi>>
    /\ UNCHANGED buildVars
    /\ UNCHANGED scoreVars
    /\ UNCHANGED cacheVars

ResolveMenu ==
    {FullSong(0, plays, Created100, recent, ti) :
        plays \in {0, 5}, recent \in {Recent1, Recent2}, ti \in {Hax, HaxSpace}}

ResolveGroups == GroupsOver(ResolveMenu, 10, MaxGroup) \ {<<>>}

\* two exact duplicates, both played
DuplicatePair ==
    <<FullSong(21, 5, Created100, Recent1, Hax), FullSong(22, 3, Created50, Recent2, Hax)>>

ResolveInputs ==
    {<<>>} \cup {<<g>> : g \in ResolveGroups}
           \cup {<<DuplicatePair, g>> : g \in ResolveGroups}

InitResolve ==
    /\ IdleBuild
    /\ IdleScore
    /\ IdleCache
    /\ rgroups \in ResolveInputs
    /\ gi = 0
    /\ rpc = "idle"
    /\ log = <<>>

NextResolve ==
    \/ StartDelete
    \/ AutoManage
    \/ CombinePlayCounts
    \/ DeleteSongs
    \/ ReadKey
    \/ Summarise

SpecResolve == InitResolve /\ [][NextResolve]_vars

\* every field score of every pair of the group is exactly 100
AllHundred(group) ==
    \A p \in Range(get_all_pairs(group)) : \A name \in Range(score_names) :
        ScoreOf(name, group[p[1]], group[p[2]], 1) = 100

\* the API calls in the history
Calls == Events("increment") \cup Events("delete")

\* C14: in delete_duplicates, a group whose every pairwise field score is 100
\* goes from its similarity evaluation straight to the merge and delete
\* calls and is never prompted for, and the run that ends without a failed
\* call has deleted its duplicates; a group with a score below 100 gets the
\* prompt right after the evaluation, before any call
C14_AutoBoundary ==
    gi >= 1 =>
        \A k \in Events("similarity") :
            \E auto \in {AllHundred(rgroups[log[k].g])} :
                /\ k < Len(log) =>
                      /\ log[k + 1].g = log[k].g
                      /\ log[k + 1].op = (IF auto THEN log[k + 1].op ELSE "prompt")
                      /\ auto => k + 1 \in Calls
                /\ (k = Len(log) /\ rpc = "merge") => auto
                /\ auto => \A j \in Events("prompt") : log[j].g # log[k].g
                /\ (auto /\ rpc = "done") =>
                      \E d \in Events("delete") : log[d].g = log[k].g /\ log[d].ok

\* a run over two groups ended: the first was resolved without a prompt, the
\* second, of three members, was prompted for
C14_Witness ==
    /\ rpc = "done" /\ gi >= 1
    /\ Len(rgroups) = 2 /\ Len(rgroups[2]) = 3
    /\ \E d \in Events("delete") : log[d].g = 1
    /\ \A j \in Events("prompt") : log[j].g = 2
    /\ Events("prompt") # {}
    /\ AllHundred(rgroups[1]) /\ ~AllHundred(rgroups[2])

\* C15: for every group the merge call comes before the delete call; a call
\* that fails ends the run, so no delete follows a failed merge; and what was
\* done for the groups before it stays done
C15_MergeBeforeDelete ==
    /\ \A k \in Events("delete") : \A j \in Events("increment") :
          log[j].g = log[k].g => (j < k /\ log[j].ok)
    /\ \A k \in 1..Len(log) : ~log[k].ok => (k = Len(log) /\ rpc = "raised")
    /\ (rpc = "raised" /\ gi >= 1) =>
          \A p \in 1..(gi - 1) :
              \/ \E d \in Events("delete") : log[d].g = have_similar(rgroups)[p] /\ log[d].ok
              \/ \E d \in Events("key") :
                    log[d].g = have_similar(rgroups)[p] /\ log[d].key \in {"n", "enter", "return"}

\* the merge call of the second group failed after the first group was
\* merged and deleted
C15_Witness ==
    /\ rpc = "raised"
    /\ gi = 2
    /\ log[Len(log)].op = "increment" /\ ~log[Len(log)].ok
    /\ \E d \in Events("delete") : log[d].g = 1 /\ log[d].ok
    /\ \E m \in Events("increment") : log[m].g = 1 /\ log[m].ok

\* C16: for a group that was prompted for, a merge or delete call is made
\* only after the key 'y' was read for it; after 'n', 'enter' or 'return'
\* nothing more happens for the group; any other key is followed by the
\* prompt for the same group and by no call
C16_DeleteOnlyOnYes ==
    /\ \A c \in Calls :
          (\E j \in Events("prompt") : log[j].g = log[c].g) =>
              \E y \in Events("key") : y < c /\ log[y].g = log[c].g /\ log[y].key = "y"
    /\ \A k \in Events("key") :
          /\ log[k].key \in {"n", "enter", "return"} =>
                \A j \in 1..Len(log) : log[j].g = log[k].g => (j <= k /\ j \notin Calls)
          /\ log[k].key \notin {"n", "enter", "return", "y"} =>
                /\ k < Len(log)
                /\ log[k + 1].op = "prompt" /\ log[k + 1].g = log[k].g
          /\ log[k].key = "y" =>
                \A j \in Calls : log[j].g = log[k].g => j > k

\* the operator pressed another key, was prompted again, answered 'y', and
\* the group was merged and deleted
C16_Witness ==
    /\ rpc = "done"
    /\ \E x, y \in Events("key") :
          /\ x < y /\ log[x].g = log[y].g
          /\ log[x].key = "x" /\ log[y].key = "y"
          /\ \E d \in Events("delete") : log[d].g = log[y].g /\ d > y
          /\ \E m \in Events("increment") : log[m].g = log[y].g /\ m > y

\* the play counts of the members of the group that are not the kept one
DiscardedPlays(group) ==
    SumPlays(group) - get_keep_song(group).playCount

\* C17: the merge call names the kept record, adds the sum of the play counts
\* of the discarded members, which is not zero, and gives the playtime of the
\* largest recentTimestamp of the whole group; the delete call names every
\* member but the kept one, and comes with a merge call exactly when that
\* sum is not zero
C17_MergeAmount ==
    /\ \A k \in Events("increment") :
          \E group \in {rgroups[log[k].g]} :
          \E latest \in {StrToInt(song.recentTimestamp) : song \in Range(group)} :
              /\ \A song \in Range(group) : StrToInt(song.recentTimestamp) <= latest
              /\ log[k].id = get_keep_song(group).id
              /\ log[k].n = DiscardedPlays(group)
              /\ log[k].n # 0
              /\ log[k].t = playtime(latest)
    /\ \A k \in Events("delete") :
          \E group \in {rgroups[log[k].g]} :
              /\ log[k].ids =
                    SelectSeq(IdsOf(group), LAMBDA id : id # get_keep_song(group).id)
              /\ DiscardedPlays(group) # 0 <=>
                    \E m \in Events("increment") : log[m].g = log[k].g

\* a merge whose playtime comes from the kept record, which was played last
C17_Witness ==
    /\ rpc = "done"
    /\ \E k \in Events("increment") :
          /\ log[k].ok
          /\ Len(rgroups[log[k].g]) = 3
          /\ log[k].n = 10
          /\ Member(log[k].g, log[k].id).recentTimestamp = Recent2
          /\ \A song \in Range(get_discard_songs(rgroups[log[k].g])) :
                song.recentTimestamp = Recent1
          /\ \E d \in Events("delete") : log[d].g = log[k].g /\ d > k /\ Len(log[d].ids) = 2

\* C20: in both drivers nothing is evaluated, printed, asked or sent for a
\* group of one member, and no run ends on the division by zero pairs
C20_SingletonsFiltered ==
    /\ \A k \in 1..Len(log) : Len(rgroups[log[k].g]) > 1
    /\ rpc = "raised" => ~log[Len(log)].ok

\* a run over a duplicate pair and a singleton ended
C20_Witness ==
    /\ rpc = "done"
    /\ Len(rgroups) = 2
    /\ Len(rgroups[2]) = 1
    /\ log # <<>>

----------------------------------------------------------------------------
(* delete_duplicates.py run again and again: main() takes the groups from  *)
(* use_cache("groups", ...) and hands them to delete_duplicates.  cfile is *)
(* the file of "groups"; the history is that of the runs over the entry    *)
(* the file holds now, and starts again when the entry is replaced         *)

\* main(): get_similar_groups() at some time t, up to the call of
\* delete_duplicates.  generate_similar_groups is the producer; what it
\* returns is an input (none is drawn when it is not called)
Main ==
    /\ rpc \in {"main", "done", "raised"}
    /\ \E t \in TimePoints :
       \E produced \in {<<>>} \cup {<<g>> : g \in GroupsOver(
                           {FullSong(0, 5, Created100, Recent1, ti) : ti \in {Hax, HaxSpace}},
                           10, MaxGroup) \ {<<>>}} :
         LET data == get_cached(cfile, t)
         IN  /\ t >= now
             /\ now' = t
             /\ IF data.hit
                THEN /\ Cardinality(Events("main")) < MaxRuns
                     /\ produced = <<>>
                     /\ rgroups' = data.data
                     /\ cfile' = cfile
                     /\ log' = Append(log, [Event("main", 0) EXCEPT !.key = "hit"])
                ELSE /\ data.exc = "none"
                     /\ rgroups' = produced
                     /\ cfile' = Dumped(produced, t)
                     /\ log' = <<[Event("main", 0) EXCEPT !.key = "miss"]>>
    /\ gi' = 0
    /\ rpc' = "idle"
    /\ UNCHANGED <<songsFile, pgFile, pc, songs, groups, toProcess, index,
                   loaded, prevDone, prevResult, lastRead>>
    /\ UNCHANGED scoreVars
    /\ UNCHANGED call

InitRerun ==
    /\ IdleBuild
    /\ IdleScore
    /\ IdleCache
    /\ rgroups = <<>>
    /\ gi = 0
    /\ rpc = "main"
    /\ log = <<>>

NextRerun ==
    \/ Main
    \/ StartDelete
    \/ AutoManage
    \/ CombinePlayCounts
    \/ DeleteSongs
    \/ ReadKey

SpecRerun == InitRerun /\ [][NextRerun]_vars

\* C22: after a run of main() that took the groups from the fresh cached
\* entry, no merge and no delete call is made for a group that an earlier
\* run over the same entry has already merged and deleted
C22_MergedOncePerGroup ==
    \A m \in Events("main") :
        log[m].key = "hit" =>
            \A c \in Calls :
                c > m =>
                    ~\E d \in Events("delete") :
                        d < m /\ log[d].g = log[c].g /\ log[d].ok

====
